---- MODULE Spec2Model ----
(***************************************************************************)
(* Model of html2notion's HTML-to-block translation engine                 *)
(* (html2notion/translate/html2json_base.py) and of its table-to-database  *)
(* projection (html2notion/utils/table.py).                                *)
(*                                                                         *)
(* A Python string is a sequence of code points (naturals).  A DOM node is *)
(* a record [name, attrs, kids, text]; a NavigableString is a node named   *)
(* "#text".  Every rich-text object and block is one record shape (Obj);   *)
(* a key the Python dict does not carry is the empty value of its field.   *)
(***************************************************************************)
EXTENDS Integers, Sequences, FiniteSets, TLC

VARIABLES op, arg, res, done,
          tbl, pc, row, col, headers, row_properties, rows, data_rows

vars == <<op, arg, res, done, tbl, pc, row, col, headers, row_properties, rows, data_rows>>

callVars == <<op, arg, res, done>>

tableVars == <<tbl, pc, row, col, headers, row_properties, rows, data_rows>>

(***************************************************************************)
(* Program constants.                                                      *)
(***************************************************************************)
URL_MAX_LENGTH == 2000

TEXT_MAX_LENGTH == 2000

RICHTEXT_ARRAY_LENGTH == 100

\* The text that extract_text_and_parents yields for a <br> element: "<br>".
BR_TEXT == <<60, 98, 114, 62>>

\* "\n"
NEWLINE == <<10>>

\* Characters str.strip() removes (ASCII whitespace and U+001C..U+001F, U+0085, U+00A0).
Whitespace == {9, 10, 11, 12, 13, 28, 29, 30, 31, 32, 133, 160}

(***************************************************************************)
(* Bounds of the model.                                                    *)
(***************************************************************************)
\* Longest text enumerated exhaustively over Alphabet.
MaxShort == 4

\* Long texts have lengths around k * TEXT_MAX_LENGTH for k <= MaxChunks.
MaxChunks == 2

\* Most children of the element handed to generate_inline_obj.
MaxKids == 2

\* "a", " ", "<", "b", "r", ">"
Alphabet == {97, 32, 60, 98, 114, 62}

(***************************************************************************)
(* Helpers on sequences.                                                   *)
(***************************************************************************)
Min(a, b) == IF a <= b THEN a ELSE b

Max(a, b) == IF a >= b THEN a ELSE b

\* s[:n]
Take(s, n) == SubSeq(s, 1, Min(Len(s), n))

\* s[i:i+n] with a 0-based i
Slice(s, i, n) == SubSeq(s, i + 1, Min(Len(s), i + n))

CeilDiv(a, b) == (a + b - 1) \div b

\* the two halves of a sequence of two or more elements
FirstHalf(s) == SubSeq(s, 1, Len(s) \div 2)

SecondHalf(s) == SubSeq(s, Len(s) \div 2 + 1, Len(s))

\* the concatenation of the sequences of ss (by halves, to keep the recursion shallow)
RECURSIVE Flatten(_)
Flatten(ss) ==
    IF Len(ss) = 0 THEN << >>
    ELSE IF Len(ss) = 1 THEN ss[1]
    ELSE Flatten(FirstHalf(ss)) \o Flatten(SecondHalf(ss))

RECURSIVE SumSeq(_)
SumSeq(ns) ==
    IF Len(ns) = 0 THEN 0
    ELSE IF Len(ns) = 1 THEN ns[1]
    ELSE SumSeq(FirstHalf(ns)) + SumSeq(SecondHalf(ns))

Last(s) == s[Len(s)]

Front(s) == SubSeq(s, 1, Len(s) - 1)

SeqsUpTo(S, n) == UNION {[1..k -> S] : k \in 0..n}

\* str.strip() is non-empty
StripNonEmpty(s) == \E i \in 1..Len(s) : s[i] \notin Whitespace

(***************************************************************************)
(* DOM nodes.                                                              *)
(***************************************************************************)
NoColor == [fmt |-> "", vals |-> <<>>]

NoAttrs == [href |-> <<>>, database_id |-> "", src |-> <<>>, upload_id |-> "",
            coda_mime |-> "", notion_mime |-> "", style |-> <<>>, color |-> NoColor,
            toggle |-> ""]

TextNode(t) == [name |-> "#text", attrs |-> NoAttrs, kids |-> <<>>, text |-> t]

Element(n, a, ks) == [name |-> n, attrs |-> a, kids |-> ks, text |-> <<>>]

IsString(node) == node.name = "#text"

(***************************************************************************)
(* Color Matcher.                                                          *)
(***************************************************************************)
Color(n, r, g, b) == [name |-> n, r |-> r, g |-> g, b |-> b]

notion_color ==
    << Color("default", 0, 0, 0),
       Color("gray", 128, 128, 128),
       Color("brown", 165, 42, 42),
       Color("orange", 255, 165, 0),
       Color("yellow", 255, 255, 0),
       Color("green", 0, 128, 0),
       Color("blue", 0, 0, 255),
       Color("purple", 128, 0, 128),
       Color("pink", 255, 192, 203),
       Color("red", 255, 0, 0) >>

\* The square of the distance _closest_color computes.  The code compares the
\* square roots as floats; the squares are integers below 2^18, whose square
\* roots are distinct doubles in the same order, so d1 ** 0.5 < d2 ** 0.5
\* exactly when d1 < d2.
Distance2(r, g, b, c) ==
    (r - c.r) * (r - c.r) + (g - c.g) * (g - c.g) + (b - c.b) * (b - c.b)

\* closest = [inf |-> distance is still float("inf"), distance, color]
RECURSIVE closest_color_loop_le(_, _, _, _, _)
closest_color_loop_le(r, g, b, i, closest) ==
    IF i > Len(notion_color) THEN closest.color
    ELSE LET color == notion_color[i]
             distance == Distance2(r, g, b, color)
         IN  IF closest.inf \/ distance <= closest.distance
             THEN closest_color_loop_le(r, g, b, i + 1,
                      [inf |-> FALSE, distance |-> distance, color |-> color.name])
             ELSE closest_color_loop_le(r, g, b, i + 1, closest)

\* Mutant of closest_color: "<=" for "<", so the last minimal entry wins.
closest_color_le(r, g, b) ==
    closest_color_loop_le(r, g, b, 1, [inf |-> TRUE, distance |-> 0, color |-> "None"])

RECURSIVE closest_color_loop(_, _, _, _, _)
closest_color_loop(r, g, b, i, closest) ==
    IF i > Len(notion_color) THEN closest.color
    ELSE LET color == notion_color[i]
             distance == Distance2(r, g, b, color)
         IN  IF closest.inf \/ distance < closest.distance
             THEN closest_color_loop(r, g, b, i + 1,
                      [inf |-> FALSE, distance |-> distance, color |-> color.name])
             ELSE closest_color_loop(r, g, b, i + 1, closest)

closest_color(r, g, b) ==
    closest_color_loop(r, g, b, 1, [inf |-> TRUE, distance |-> 0, color |-> "None"])

(***************************************************************************)
(* Style Resolver.  A style attribute is a sequence of rules <<key, value>>*)
(* (the rules the split on ";" and ":" yields); the value of "color" is a  *)
(* colour declaration [fmt, vals]: fmt "rgb" with the integers the regex   *)
(* finds, fmt "hex" with the three bytes, any other fmt a string that is   *)
(* neither.                                                                *)
(***************************************************************************)
LowerStr(s) ==
    CASE s = "Bold" -> "bold"
      [] s = "Courier" -> "courier"
      [] s = "Italic" -> "italic"
      [] s = "RGB" -> "rgb"
      [] s = "TRUE" -> "true"
      [] OTHER -> s

LowerValue(k, v) == IF k = "color" THEN [v EXCEPT !.fmt = LowerStr(v.fmt)] ELSE LowerStr(v)

get_tag_style(tag_soup) ==
    IF IsString(tag_soup) THEN << >>
    ELSE LET style == tag_soup.attrs.style
             keys == {style[i][1] : i \in DOMAIN style}
             last(k) == CHOOSE i \in DOMAIN style :
                            /\ style[i][1] = k
                            /\ \A j \in DOMAIN style : style[j][1] = k => j <= i
         IN  [k \in keys |-> LowerValue(k, style[last(k)][2])]

\* styles.get(key, default)
StyleGet(styles, key, default) == IF key \in DOMAIN styles THEN styles[key] ELSE default

\* int(s) of the strings s.isdigit() accepts, -1 for the others
DigitValue(s) ==
    CASE s = "100" -> 100 [] s = "400" -> 400 [] s = "699" -> 699
      [] s = "700" -> 700 [] s = "900" -> 900 [] OTHER -> -1

\* the CSS keywords that occur in s as substrings
KeywordsIn(s) ==
    CASE s = "underline" -> {"underline"}
      [] s = "line-through" -> {"line-through"}
      [] s = "underline line-through" -> {"underline", "line-through"}
      [] s = "italic" -> {"italic"}
      [] OTHER -> {}

is_bold(tag_name, styles) ==
    \/ tag_name \in {"b", "strong"}
    \/ LET font_weight == StyleGet(styles, "font-weight", "")
       IN  \/ font_weight = "bold"
           \/ DigitValue(font_weight) >= 700

is_strikethrough(tag_name, styles) ==
    \/ tag_name \in {"s", "strike", "del"}
    \/ "line-through" \in KeywordsIn(StyleGet(styles, "text-decoration", ""))

is_italic(tag_name, styles) ==
    \/ tag_name \in {"i", "em"}
    \/ "italic" \in KeywordsIn(StyleGet(styles, "font-style", ""))

is_underline(tag_name, styles) ==
    \/ tag_name \in {"u"}
    \/ "underline" \in KeywordsIn(StyleGet(styles, "text-decoration", ""))

is_code(tag_name, styles) ==
    \/ tag_name \in {"code"}
    \/ StyleGet(styles, "-en-code", "false") = "true"
    \/ LowerStr(StyleGet(styles, "font-family", "")) \in {"courier", "monospace"}

get_color(styles, attrs) ==
    LET c1 == StyleGet(styles, "color", NoColor)
        color == IF c1.fmt = "" THEN attrs.color ELSE c1
    IN  IF color.fmt = "" THEN "default"
        ELSE IF color.fmt = "rgb"
        THEN IF Len(color.vals) >= 3
             THEN closest_color(color.vals[1], color.vals[2], color.vals[3])
             ELSE "default"
        ELSE IF color.fmt = "hex"
        THEN closest_color(color.vals[1], color.vals[2], color.vals[3])
        ELSE "default"

\* text_params = {"plain_text": text}; an absent key is the empty value
NewParams(text) ==
    [plain_text |-> text, bold |-> FALSE, italic |-> FALSE, strikethrough |-> FALSE,
     underline |-> FALSE, code |-> FALSE, color |-> "", url |-> <<>>,
     database_id |-> "", src |-> <<>>, upload_id |-> "", mime |-> ""]

\* Mutant of parse_one_style: each flag is assigned the rule's verdict on this
\* ancestor, so an ancestor that does not satisfy the rule clears it.
parse_one_style_assign(tag_soup, text_params) ==
    LET tag_name == tag_soup.name
        styles == get_tag_style(tag_soup)
        color == get_color(styles, tag_soup.attrs)
        p1 == [text_params EXCEPT
                  !.bold = is_bold(tag_name, styles),
                  !.italic = is_italic(tag_name, styles),
                  !.strikethrough = is_strikethrough(tag_name, styles),
                  !.underline = is_underline(tag_name, styles),
                  !.code = is_code(tag_name, styles),
                  !.color = IF color # "default" THEN color ELSE @]
    IN  IF tag_name = "a"
        THEN [p1 EXCEPT !.url = tag_soup.attrs.href,
                        !.database_id = IF tag_soup.attrs.database_id # ""
                                        THEN tag_soup.attrs.database_id ELSE @]
        ELSE IF tag_name = "img"
        THEN [p1 EXCEPT !.src = tag_soup.attrs.src,
                        !.upload_id = tag_soup.attrs.upload_id,
                        !.mime = IF tag_soup.attrs.coda_mime # ""
                                 THEN tag_soup.attrs.coda_mime
                                 ELSE tag_soup.attrs.notion_mime]
        ELSE p1

parse_one_style(tag_soup, text_params) ==
    LET tag_name == tag_soup.name
        styles == get_tag_style(tag_soup)
        color == get_color(styles, tag_soup.attrs)
        p1 == [text_params EXCEPT
                  !.bold = @ \/ is_bold(tag_name, styles),
                  !.italic = @ \/ is_italic(tag_name, styles),
                  !.strikethrough = @ \/ is_strikethrough(tag_name, styles),
                  !.underline = @ \/ is_underline(tag_name, styles),
                  !.code = @ \/ is_code(tag_name, styles),
                  !.color = IF color # "default" THEN color ELSE @]
    IN  IF tag_name = "a"
        THEN [p1 EXCEPT !.url = tag_soup.attrs.href,
                        !.database_id = IF tag_soup.attrs.database_id # ""
                                        THEN tag_soup.attrs.database_id ELSE @]
        ELSE IF tag_name = "img"
        THEN [p1 EXCEPT !.src = tag_soup.attrs.src,
                        !.upload_id = tag_soup.attrs.upload_id,
                        !.mime = IF tag_soup.attrs.coda_mime # ""
                                 THEN tag_soup.attrs.coda_mime
                                 ELSE tag_soup.attrs.notion_mime]
        ELSE p1

RECURSIVE parse_styles(_, _)
parse_styles(parent_tags, text_params) ==
    IF parent_tags = <<>> THEN text_params
    ELSE parse_styles(Tail(parent_tags), parse_one_style(Head(parent_tags), text_params))

(***************************************************************************)
(* Rich-text objects and blocks.                                           *)
(***************************************************************************)
NoAnnotations == [bold |-> FALSE, italic |-> FALSE, strikethrough |-> FALSE,
                  underline |-> FALSE, code |-> FALSE, color |-> ""]

\* type "None" is Python's None
NoneObj == [object |-> "", type |-> "None", content |-> <<>>, plain_text |-> <<>>,
            href |-> <<>>, annotations |-> NoAnnotations, url |-> <<>>,
            file_type |-> "", upload_id |-> "", database_id |-> "",
            rich_text |-> <<>>, has_children |-> FALSE, children |-> <<>>]

\* the URL validity predicate of html2notion.utils: a URL with a scheme ("h...")
is_valid_url(url) == Len(url) > 0 /\ url[1] = 104

IsImageMime(mime) == mime \in {"image/png", "image/jpeg"}

generate_link(kwargs) ==
    IF kwargs.plain_text = <<>> \/ ~is_valid_url(kwargs.url) THEN NoneObj
    ELSE LET link_url == Take(kwargs.url, URL_MAX_LENGTH)
         IN  IF kwargs.database_id # ""
             THEN [NoneObj EXCEPT !.object = "block", !.type = "link_to_page",
                                  !.database_id = kwargs.database_id]
             ELSE [NoneObj EXCEPT !.type = "text", !.href = link_url,
                                  !.plain_text = kwargs.plain_text,
                                  !.content = kwargs.plain_text]

generate_image(kwargs) ==
    IF (kwargs.src = <<>> \/ ~is_valid_url(kwargs.src)) /\ kwargs.upload_id = ""
    THEN NoneObj
    ELSE LET image_block ==
                 IF kwargs.upload_id # ""
                 THEN [NoneObj EXCEPT !.object = "block", !.type = "image",
                                      !.file_type = "file_upload",
                                      !.upload_id = kwargs.upload_id]
                 ELSE [NoneObj EXCEPT !.object = "block", !.type = "image",
                                      !.file_type = "external", !.url = kwargs.src]
         IN  IF kwargs.mime # "" /\ ~IsImageMime(kwargs.mime)
             THEN [image_block EXCEPT !.type = "file"]
             ELSE image_block

generate_text(kwargs) ==
    IF kwargs.plain_text = <<>> THEN NoneObj
    ELSE [NoneObj EXCEPT
             !.type = "text",
             !.plain_text = kwargs.plain_text,
             !.content = kwargs.plain_text,
             !.annotations = [bold |-> kwargs.bold, italic |-> kwargs.italic,
                              strikethrough |-> kwargs.strikethrough,
                              underline |-> kwargs.underline, code |-> kwargs.code,
                              color |-> kwargs.color]]

(***************************************************************************)
(* Text-Run Extractor.  A leaf unit is [text, parents].                    *)
(***************************************************************************)
Leaf(text, parents) == [text |-> text, parents |-> parents]

RECURSIVE extract_text_and_parents(_, _)
extract_text_and_parents(tag, parents) ==
    IF IsString(tag)
    THEN IF StripNonEmpty(tag.text) THEN << Leaf(tag.text, parents) >> ELSE << >>
    ELSE IF tag.name = "img"
    THEN << Leaf(tag.attrs.src, parents \o <<tag>>) >>
    ELSE LET one(child) ==
                 IF IsString(child)
                 THEN IF StripNonEmpty(child.text)
                      THEN << Leaf(child.text, parents \o <<tag>>) >>
                      ELSE << >>
                 ELSE IF child.name = "br"
                 THEN << Leaf(BR_TEXT, << >>) >>
                 ELSE extract_text_and_parents(child, parents \o <<tag>>)
         IN  Flatten([i \in DOMAIN tag.kids |-> one(tag.kids[i])])

(***************************************************************************)
(* Rich-Text Builder.                                                      *)
(***************************************************************************)
\* Mutant of text_chunks: the slices step by the limit but are one longer.
text_chunks_overlap(text) ==
    [k \in 1..CeilDiv(Len(text), TEXT_MAX_LENGTH) |->
        Slice(text, (k - 1) * TEXT_MAX_LENGTH, TEXT_MAX_LENGTH + 1)]

\* [text[i:i + TEXT_MAX_LENGTH] for i in range(0, len(text), TEXT_MAX_LENGTH)]
text_chunks(text) ==
    [k \in 1..CeilDiv(Len(text), TEXT_MAX_LENGTH) |->
        Slice(text, (k - 1) * TEXT_MAX_LENGTH, TEXT_MAX_LENGTH)]

\* the objects one leaf unit that is no line break appends to res_obj
inline_objs_of(text, text_params) ==
    LET keep(o) == IF o.type = "None" THEN << >> ELSE << o >>
    IN  IF text_params.url # <<>> /\ is_valid_url(text_params.url)
        THEN keep(generate_link(text_params))
        ELSE IF text_params.src # <<>>
        THEN keep(generate_image(text_params))
        ELSE IF Len(text) <= TEXT_MAX_LENGTH
        THEN keep(generate_text(text_params))
        ELSE LET chunks == text_chunks(text)
             IN  Flatten([k \in DOMAIN chunks |->
                     keep(generate_text([text_params EXCEPT !.plain_text = chunks[k]]))])

\* res_obj[-1]["text"]["content"] += "\n"; res_obj[-1]["plain_text"] += "\n",
\* the IndexError (no object yet) and the KeyError (no "text" key) swallowed
append_newline(res_obj) ==
    IF res_obj = << >> \/ Last(res_obj).type # "text" THEN res_obj
    ELSE Front(res_obj) \o
         << [Last(res_obj) EXCEPT !.content = @ \o NEWLINE, !.plain_text = @ \o NEWLINE] >>

\* one iteration of the loop of generate_inline_obj
inline_step(leaf, res_obj) ==
    LET text == leaf.text
        text_params == parse_styles(leaf.parents, NewParams(text))
    IN  IF text = BR_TEXT
        THEN append_newline(res_obj)
        ELSE res_obj \o inline_objs_of(text, text_params)

\* the loop over the leaf units, in order: the loop over the first half of them,
\* then the loop over the second half (the test first = first has the first half
\* evaluated before the second is entered, which keeps the evaluation shallow)
RECURSIVE inline_loop(_, _)
inline_loop(text_with_parents, res_obj) ==
    IF Len(text_with_parents) = 0 THEN res_obj
    ELSE IF Len(text_with_parents) = 1 THEN inline_step(text_with_parents[1], res_obj)
    ELSE LET first == inline_loop(FirstHalf(text_with_parents), res_obj)
         IN  IF first = first THEN inline_loop(SecondHalf(text_with_parents), first)
             ELSE first

generate_inline_obj(tag) == inline_loop(extract_text_and_parents(tag, << >>), << >>)

(***************************************************************************)
(* Inputs of the inline conversion.                                        *)
(***************************************************************************)
ShortTexts == SeqsUpTo(Alphabet, MaxShort)

\* a text of n letters in which no two chunks are alike
LongText(n) == [i \in 1..n |-> 97 + (i % 26)]

LongLengths == {k * TEXT_MAX_LENGTH + d : k \in 1..MaxChunks, d \in {-1, 0, 1}}

\* "h" (valid), "h2" (valid), "x" (fails the validity check)
UrlH == <<104>>

UrlH2 == <<104, 50>>

UrlX == <<120>>

Br == Element("br", NoAttrs, << >>)

Anchor(href, dbid, ks) ==
    Element("a", [NoAttrs EXCEPT !.href = href, !.database_id = dbid], ks)

Img(src, upload, mime) ==
    Element("img", [NoAttrs EXCEPT !.src = src, !.upload_id = upload, !.coda_mime = mime],
            << >>)

Styled(name, ks) == Element(name, NoAttrs, ks)

KidSamples ==
    { TextNode(<<97>>), TextNode(<<32>>), TextNode(BR_TEXT),
      TextNode(LongText(TEXT_MAX_LENGTH)), TextNode(LongText(TEXT_MAX_LENGTH + 1)),
      Br,
      Anchor(UrlH, "", << TextNode(<<97, 98>>) >>),
      Anchor(UrlH, "", << TextNode(LongText(TEXT_MAX_LENGTH + 1)) >>),
      Anchor(UrlX, "", << TextNode(<<97>>) >>),
      Anchor(UrlH, "db1", << TextNode(<<97>>) >>),
      Img(UrlH2, "", ""), Img(<<>>, "", ""), Img(<<>>, "up1", "application/pdf"),
      Styled("b", << Styled("u", << TextNode(<<120>>) >>) >>) }

Wrappers == {"string", "p", "b"}

\* the element handed over: the bare string, <p>text</p> or <p><b>text</b></p>
Wrap(w, t) ==
    CASE w = "string" -> TextNode(t)
      [] w = "p" -> Element("p", NoAttrs, << TextNode(t) >>)
      [] w = "b" -> Element("p", NoAttrs, << Styled("b", << TextNode(t) >>) >>)

(***************************************************************************)
(* Calls of the pure operations: op names the operation, arg its input,    *)
(* res its result once done.                                               *)
(***************************************************************************)
TableIdle ==
    /\ tbl = [headers |-> << >>, trs |-> << >>]
    /\ pc = "idle"
    /\ row = 0
    /\ col = 0
    /\ headers = << >>
    /\ row_properties = << >>
    /\ rows = << >>
    /\ data_rows = << >>

\* one short text, every string over Alphabet
InlineShortInputs == {Wrap(w, t) : w \in Wrappers, t \in ShortTexts}

\* one long text, with or without a line break after it
InlineLongInputs ==
    {Wrap(w, LongText(n)) : w \in Wrappers \ {"string"}, n \in LongLengths}
    \cup {[Wrap(w, LongText(n)) EXCEPT !.kids = @ \o << Br >>] :
             w \in Wrappers \ {"string"}, n \in LongLengths}

\* a paragraph of up to MaxKids children
InlineKidsInputs == {Element("p", NoAttrs, ks) : ks \in SeqsUpTo(KidSamples, MaxKids)}

\* the hrefs of an anchor: absent, failing the validity check, valid
AnchorHrefs == { << >>, UrlX, UrlH, UrlH2 }

\* one text in an anchor, with and without a destination-container id, the text
\* directly in the anchor or in a <b> in it, or in an anchor inside the anchor
InlineAnchorInputs ==
    {Element("p", NoAttrs, << Anchor(h, d, << TextNode(<<97>>) >>) >>) :
        h \in AnchorHrefs, d \in {"", "db1", "db2"}}
    \cup {Element("p", NoAttrs,
              << Anchor(h, d, << Styled("b", << TextNode(<<97>>) >>) >>), TextNode(<<98>>) >>) :
        h \in AnchorHrefs, d \in {"", "db1"}}
    \cup {Element("p", NoAttrs,
              << Anchor(h, "db1", << Anchor(h2, d, << TextNode(<<97>>) >>) >>) >>) :
        h \in AnchorHrefs, h2 \in AnchorHrefs, d \in {"", "db2"}}

\* Most elements nested around the text of a styled input.
MaxNest == 2

WithStyle(rules) == Element("span", [NoAttrs EXCEPT !.style = rules], << >>)

\* elements that set one flag, several flags or none, by name or by style, and
\* an anchor; their children are filled in by Nest
StyleElements ==
    { Styled("b", << >>), Styled("u", << >>), Styled("em", << >>), Styled("del", << >>),
      Styled("code", << >>), Styled("span", << >>),
      WithStyle(<< <<"font-weight", "700">> >>), WithStyle(<< <<"font-weight", "400">> >>),
      WithStyle(<< <<"text-decoration", "underline line-through">>,
                   <<"font-style", "Italic">> >>),
      Anchor(UrlH, "", << >>) }

\* the elements of chain nested into one another, the first outermost, around leaf
RECURSIVE Nest(_, _)
Nest(chain, leaf) ==
    IF chain = << >> THEN leaf
    ELSE [Head(chain) EXCEPT !.kids = << Nest(Tail(chain), leaf) >>]

\* <p> with one text in up to MaxNest elements, alone or after a plain text
InlineStyleInputs ==
    {Element("p", NoAttrs, << Nest(chain, TextNode(<<120>>)) >>) :
        chain \in SeqsUpTo(StyleElements, MaxNest)}
    \cup {Element("p", NoAttrs, << TextNode(<<97>>), Nest(chain, TextNode(<<120>>)) >>) :
        chain \in SeqsUpTo(StyleElements, 1)}

InlineInputs ==
    InlineShortInputs \cup InlineLongInputs \cup InlineKidsInputs \cup InlineAnchorInputs
        \cup InlineStyleInputs

\* a call of operation o is pending on an input drawn from S
Pending(o, S) ==
    /\ op = o
    /\ arg \in S
    /\ res = << >>
    /\ done = FALSE
    /\ TableIdle

\* the pending call returns r
Return(o, r) ==
    /\ op = o
    /\ ~done
    /\ res' = r
    /\ done' = TRUE
    /\ UNCHANGED <<op, arg>>
    /\ UNCHANGED tableVars

Returned(o) == op = o /\ done

InitInline == Pending("generate_inline_obj", InlineInputs)

GenerateInlineObj == Return("generate_inline_obj", generate_inline_obj(arg))

NextInline == GenerateInlineObj

SpecInline == InitInline /\ [][NextInline]_vars

(***************************************************************************)
(* Claims on the Rich-Text Builder.                                        *)
(***************************************************************************)
LeavesOf(tag) == extract_text_and_parents(tag, << >>)

\* a text leaf with no valid link and no image source
IsPlainLeaf(leaf) ==
    LET text_params == parse_styles(leaf.parents, NewParams(leaf.text))
    IN  /\ ~(text_params.url # << >> /\ is_valid_url(text_params.url))
        /\ text_params.src = << >>

Contents(objs) == Flatten([i \in DOMAIN objs |-> objs[i].content])

AllLongPlain(tag) ==
    /\ LeavesOf(tag) # << >>
    /\ \A i \in DOMAIN LeavesOf(tag) :
          /\ IsPlainLeaf(LeavesOf(tag)[i])
          /\ Len(LeavesOf(tag)[i].text) > TEXT_MAX_LENGTH

\* C1: plain text leaves longer than TEXT_MAX_LENGTH yield ceil(L / TEXT_MAX_LENGTH)
\* text objects each, in order, none longer than the limit, whose contents
\* concatenated are the original text.
C1_LongTextChunked ==
    (Returned("generate_inline_obj") /\ AllLongPlain(arg)) =>
        LET leaves == LeavesOf(arg)
        IN  /\ Len(res) = SumSeq([i \in DOMAIN leaves |->
                              CeilDiv(Len(leaves[i].text), TEXT_MAX_LENGTH)])
            /\ \A i \in DOMAIN res :
                  /\ res[i].type = "text"
                  /\ Len(res[i].content) <= TEXT_MAX_LENGTH
                  /\ Len(res[i].content) > 0
            /\ Contents(res) = Flatten([i \in DOMAIN leaves |-> leaves[i].text])

\* a text of more than two limits was split into three objects
C1_Witness ==
    /\ Returned("generate_inline_obj")
    /\ AllLongPlain(arg)
    /\ Len(LeavesOf(arg)) = 1
    /\ Len(res) = 3

OneShortPlainLeaf(tag) ==
    /\ Len(LeavesOf(tag)) = 1
    /\ IsPlainLeaf(LeavesOf(tag)[1])
    /\ StripNonEmpty(LeavesOf(tag)[1].text)
    /\ Len(LeavesOf(tag)[1].text) <= TEXT_MAX_LENGTH

\* C2: a non-whitespace text of at most TEXT_MAX_LENGTH characters with no link
\* or image ancestor yields exactly one text object, its content the text verbatim.
C2_ShortTextVerbatim ==
    (Returned("generate_inline_obj") /\ OneShortPlainLeaf(arg)) =>
        /\ Len(res) = 1
        /\ res[1].type = "text"
        /\ res[1].content = LeavesOf(arg)[1].text

\* C3: every emitted object of type "text" has content of at most
\* TEXT_MAX_LENGTH characters.
C3_ContentWithinLimit ==
    Returned("generate_inline_obj") =>
        \A i \in DOMAIN res :
            res[i].type = "text" => Len(res[i].content) <= TEXT_MAX_LENGTH

(***************************************************************************)
(* Rich-Text Merge.                                                        *)
(***************************************************************************)
\* Mutant of is_same_annotations_text: the length check is left out.
is_same_annotations_text_unbounded(text_one, text_another) ==
    IF text_one.type # "text" \/ text_another.type # "text" THEN FALSE
    ELSE /\ text_one.annotations = text_another.annotations
         /\ text_one.href = text_another.href

\* Mutant of is_same_annotations_text: the type check is left out.
is_same_annotations_text_untyped(text_one, text_another) ==
    LET total_size == Len(text_one.content) + Len(text_another.content)
    IN  IF total_size > TEXT_MAX_LENGTH THEN FALSE
        ELSE /\ text_one.annotations = text_another.annotations
             /\ text_one.href = text_another.href

is_same_annotations_text(text_one, text_another) ==
    IF text_one.type # "text" \/ text_another.type # "text" THEN FALSE
    ELSE LET total_size == Len(text_one.content) + Len(text_another.content)
         IN  IF total_size > TEXT_MAX_LENGTH THEN FALSE
             ELSE /\ text_one.annotations = text_another.annotations
                  /\ text_one.href = text_another.href

RECURSIVE merge_loop(_, _, _)
merge_loop(rest, current_text, merged_text) ==
    IF rest = << >> THEN Append(merged_text, current_text)
    ELSE LET text == Head(rest)
         IN  IF is_same_annotations_text(current_text, text)
             THEN LET text_content == current_text.content \o text.content
                  IN  merge_loop(Tail(rest),
                                 [current_text EXCEPT !.plain_text = text_content,
                                                      !.content = text_content],
                                 merged_text)
             ELSE merge_loop(Tail(rest), text, Append(merged_text, current_text))

merge_rich_text(rich_text) ==
    IF rich_text = << >> THEN << >>
    ELSE merge_loop(Tail(rich_text), Head(rich_text), << >>)

(***************************************************************************)
(* Inputs of the merge: objects as generate_text, generate_link and        *)
(* generate_image build them.                                              *)
(***************************************************************************)
\* Most objects in a sequence handed to merge_rich_text.
MaxMerge == 3

\* a text of n characters that starts at letter c
Pattern(n, c) == [i \in 1..n |-> c + (i % 5)]

PlainObj(t, bold) ==
    generate_text([NewParams(t) EXCEPT !.bold = bold])

LinkObj(t, url) == generate_link([NewParams(t) EXCEPT !.url = url])

HalfLimit == TEXT_MAX_LENGTH \div 2

MergeSamples ==
    { PlainObj(Pattern(1, 97), FALSE), PlainObj(Pattern(1, 65), TRUE),
      PlainObj(Pattern(HalfLimit, 98), FALSE), PlainObj(Pattern(HalfLimit, 66), TRUE),
      PlainObj(Pattern(HalfLimit + 1, 99), FALSE),
      PlainObj(Pattern(TEXT_MAX_LENGTH, 100), FALSE),
      LinkObj(Pattern(1, 107), UrlH), LinkObj(Pattern(TEXT_MAX_LENGTH, 108), UrlH),
      LinkObj(Pattern(1, 109), UrlH2),
      generate_image([NewParams(UrlH2) EXCEPT !.src = UrlH2]),
      generate_image([NewParams(<<>>) EXCEPT !.upload_id = "up1", !.mime = "application/pdf"]),
      generate_link([NewParams(<<97>>) EXCEPT !.url = UrlH, !.database_id = "db1"]) }

MergeInputs == SeqsUpTo(MergeSamples, MaxMerge)

InitMerge == Pending("merge_rich_text", MergeInputs)

MergeRichText == Return("merge_rich_text", merge_rich_text(arg))

NextMerge == MergeRichText

SpecMerge == InitMerge /\ [][NextMerge]_vars

(***************************************************************************)
(* Claims on the merge.                                                    *)
(***************************************************************************)
\* the number of characters of text before objs[i]
Offset(objs, i) == SumSeq([j \in 1..(i - 1) |-> Len(objs[j].content)])

SameStyle(a, b) == a.annotations = b.annotations /\ a.href = b.href

AllText(objs) == \A i \in DOMAIN objs : objs[i].type = "text"

\* the output object that holds the character at offset p
Covering(objs, p) ==
    CHOOSE k \in DOMAIN objs :
        /\ objs[k].type = "text"
        /\ Offset(objs, k) <= p
        /\ p < Offset(objs, k) + Len(objs[k].content)

\* the output has an object that starts at offset p
CutAt(objs, p) == \E k \in DOMAIN objs : objs[k].type = "text" /\ Offset(objs, k) = p

\* arg[i..j] is a maximal run of objects with identical annotations and href
MaximalRun(objs, i, j) ==
    /\ i <= j
    /\ \A m \in i..j : SameStyle(objs[m], objs[i])
    /\ i = 1 \/ ~SameStyle(objs[i - 1], objs[i])
    /\ j = Len(objs) \/ ~SameStyle(objs[j + 1], objs[j])

\* C4: merge_rich_text on text objects of at most TEXT_MAX_LENGTH characters keeps
\* the content and its order, keeps every content within the limit, turns a
\* (maximal) run of identical annotations and href of combined length within the
\* limit into exactly one object, and merges at a boundary exactly when the
\* styles agree and the running object plus the next stays within the limit.
C4_MergeLeftFold ==
    (Returned("merge_rich_text") /\ AllText(arg)) =>
        /\ Contents(res) = Contents(arg)
        /\ AllText(res)
        /\ \A k \in DOMAIN res : Len(res[k].content) <= TEXT_MAX_LENGTH
        /\ \A k \in DOMAIN res : res[k].plain_text = res[k].content
        /\ \A i \in DOMAIN arg : SameStyle(res[Covering(res, Offset(arg, i))], arg[i])
        /\ \A i \in DOMAIN arg : \A j \in DOMAIN arg :
              ( /\ MaximalRun(arg, i, j)
                /\ Len(Contents(SubSeq(arg, i, j))) <= TEXT_MAX_LENGTH )
              => \E k \in DOMAIN res :
                    /\ Offset(res, k) = Offset(arg, i)
                    /\ res[k].content = Contents(SubSeq(arg, i, j))
        /\ \A i \in 2..Len(arg) :
              LET p == Offset(arg, i)
                  running == p - Offset(res, Covering(res, p - 1))
              IN  ~CutAt(res, p) <=>
                      /\ SameStyle(arg[i - 1], arg[i])
                      /\ running + Len(arg[i].content) <= TEXT_MAX_LENGTH

\* of three objects of one style the first two were merged and the third, which
\* would exceed the limit, was not
C4_Witness ==
    /\ Returned("merge_rich_text")
    /\ AllText(arg)
    /\ Len(arg) = 3
    /\ \A i \in 1..2 : SameStyle(arg[i], arg[i + 1])
    /\ Len(res) = 2
    /\ res[1].content = arg[1].content \o arg[2].content
    /\ res[2].content = arg[3].content

IsLink(o) == o.type = "text" /\ o.href # << >>

Select(objs, T(_)) ==
    Flatten([i \in DOMAIN objs |-> IF T(objs[i]) THEN << objs[i] >> ELSE << >>])

IsBarrierOrLink(o) == o.type # "text" \/ IsLink(o)

IsNonText(o) == o.type # "text"

ParagraphBlock(rich_text) ==
    [NoneObj EXCEPT !.object = "block", !.type = "paragraph", !.rich_text = rich_text]

\* Mutant of split_step: the paragraph being filled is not cleared after it is
\* appended to split_obj.
split_step_no_clear(text, st) ==
    IF text.object = "block"
    THEN IF Len(st.cur_obj) > 0
         THEN [cur_obj |-> st.cur_obj,
               split_obj |-> st.split_obj \o << ParagraphBlock(st.cur_obj), text >>]
         ELSE [cur_obj |-> << >>, split_obj |-> Append(st.split_obj, text)]
    ELSE [st EXCEPT !.cur_obj = Append(@, text)]

\* one iteration of the loop of split_image_src; st = [cur_obj, split_obj],
\* cur_obj the rich_text of the paragraph being filled
split_step(text, st) ==
    IF text.object = "block"
    THEN IF Len(st.cur_obj) > 0
         THEN [cur_obj |-> << >>,
               split_obj |-> st.split_obj \o << ParagraphBlock(st.cur_obj), text >>]
         ELSE [cur_obj |-> << >>, split_obj |-> Append(st.split_obj, text)]
    ELSE [st EXCEPT !.cur_obj = Append(@, text)]

\* the loop over rich_text, in order, by halves (first = first as in inline_loop)
RECURSIVE split_loop(_, _)
split_loop(rich_text, st) ==
    IF Len(rich_text) = 0 THEN st
    ELSE IF Len(rich_text) = 1 THEN split_step(rich_text[1], st)
    ELSE LET first == split_loop(FirstHalf(rich_text), st)
         IN  IF first = first THEN split_loop(SecondHalf(rich_text), first)
             ELSE first

split_image_src(text_obj) ==
    LET rich_text == text_obj.rich_text
        need_split == \E i \in DOMAIN rich_text : rich_text[i].object = "block"
        st == split_loop(rich_text, [cur_obj |-> << >>, split_obj |-> << >>])
    IN  IF ~need_split THEN << text_obj >>
        ELSE IF Len(st.cur_obj) > 0
        THEN Append(st.split_obj, ParagraphBlock(st.cur_obj))
        ELSE st.split_obj

\* [arr[i:i + RICHTEXT_ARRAY_LENGTH] for i in range(0, len(arr), RICHTEXT_ARRAY_LENGTH)]
array_slices(rich_text_arr) ==
    [k \in 1..CeilDiv(Len(rich_text_arr), RICHTEXT_ARRAY_LENGTH) |->
        Slice(rich_text_arr, (k - 1) * RICHTEXT_ARRAY_LENGTH, RICHTEXT_ARRAY_LENGTH)]

\* Mutant of ensure_array_len: an array one element over the limit is let through.
ensure_array_len_off_by_one(blocks) ==
    LET one(obj) ==
            IF obj.type # "paragraph" \/ Len(obj.rich_text) <= RICHTEXT_ARRAY_LENGTH + 1
            THEN << obj >>
            ELSE LET rich_texts == array_slices(obj.rich_text)
                 IN  [k \in DOMAIN rich_texts |-> ParagraphBlock(rich_texts[k])]
    IN  Flatten([i \in DOMAIN blocks |-> one(blocks[i])])

ensure_array_len(blocks) ==
    LET one(obj) ==
            IF obj.type # "paragraph" \/ Len(obj.rich_text) <= RICHTEXT_ARRAY_LENGTH
            THEN << obj >>
            ELSE LET rich_texts == array_slices(obj.rich_text)
                 IN  [k \in DOMAIN rich_texts |-> ParagraphBlock(rich_texts[k])]
    IN  Flatten([i \in DOMAIN blocks |-> one(blocks[i])])

convert_paragraph(soup) ==
    LET json_obj == ParagraphBlock(generate_inline_obj(soup))
        split_objs == split_image_src(json_obj)
    IN  ensure_array_len(split_objs)

(***************************************************************************)
(* Inputs of the splitter and of the paragraph converter.                  *)
(***************************************************************************)
\* Arrays have lengths around k * RICHTEXT_ARRAY_LENGTH for k <= MaxSlices.
MaxSlices == 2

\* Most blocks in a sequence handed to ensure_array_len.
MaxBlocks == 2

ArrayLengths ==
    {n \in {k * RICHTEXT_ARRAY_LENGTH + d : k \in 0..MaxSlices, d \in {-1, 0, 1}} : n >= 0}

\* n distinct text objects
TextItems(n) == [i \in 1..n |-> PlainObj(<<256 + i>>, FALSE)]

BlockSamples ==
    {ParagraphBlock(TextItems(n)) : n \in ArrayLengths}
    \cup { generate_image([NewParams(UrlH2) EXCEPT !.src = UrlH2]),
           [ParagraphBlock(TextItems(RICHTEXT_ARRAY_LENGTH + 1)) EXCEPT !.type = "quote"] }

BlocksInputs == SeqsUpTo(BlockSamples, MaxBlocks)

\* image every m-th child, none when m = 0
ImageEvery == {0, 1, 2, RICHTEXT_ARRAY_LENGTH + 2}

\* <p> of n children <span>c</span>, every m-th an <img> instead
ManyKids(n, m) ==
    Element("p", NoAttrs,
        [i \in 1..n |-> IF m > 0 /\ i % m = 0
                        THEN Img(UrlH2, "", "")
                        ELSE Styled("span", << TextNode(<<256 + i>>) >>)])

ParagraphInputs ==
    {ManyKids(n, m) : n \in ArrayLengths, m \in ImageEvery} \cup InlineKidsInputs

\* Most elements of the rich_text of a paragraph handed to split_image_src.
MaxSplit == 3

\* text objects, a link, an image, a file and a page link
SplitSamples ==
    { PlainObj(<<97>>, FALSE), PlainObj(<<98>>, TRUE), LinkObj(<<99>>, UrlH),
      generate_image([NewParams(UrlH2) EXCEPT !.src = UrlH2]),
      generate_image([NewParams(<< >>) EXCEPT !.upload_id = "up1",
                                              !.mime = "application/pdf"]),
      generate_link([NewParams(<<100>>) EXCEPT !.url = UrlH, !.database_id = "db1"]) }

SplitInputs == {ParagraphBlock(rich_text) : rich_text \in SeqsUpTo(SplitSamples, MaxSplit)}

InitParagraph ==
    \/ Pending("ensure_array_len", BlocksInputs)
    \/ Pending("convert_paragraph", ParagraphInputs)
    \/ Pending("split_image_src", SplitInputs)

EnsureArrayLen == Return("ensure_array_len", ensure_array_len(arg))

ConvertParagraph == Return("convert_paragraph", convert_paragraph(arg))

SplitImageSrc == Return("split_image_src", split_image_src(arg))

NextParagraph == EnsureArrayLen \/ ConvertParagraph \/ SplitImageSrc

SpecParagraph == InitParagraph /\ [][NextParagraph]_vars

(***************************************************************************)
(* Claims on the Array-Limit Splitter.                                     *)
(***************************************************************************)
IsOversized(obj) == obj.type = "paragraph" /\ Len(obj.rich_text) > RICHTEXT_ARRAY_LENGTH

\* the number of blocks the claim gives an input block
BlocksFor(obj) ==
    IF IsOversized(obj) THEN CeilDiv(Len(obj.rich_text), RICHTEXT_ARRAY_LENGTH) ELSE 1

\* where the blocks for blocks[i] start in the output
BlockStart(blocks, i) == SumSeq([j \in 1..(i - 1) |-> BlocksFor(blocks[j])])

\* C6: ensure_array_len turns a paragraph of N > RICHTEXT_ARRAY_LENGTH elements
\* into ceil(N / RICHTEXT_ARRAY_LENGTH) paragraphs of at most that many elements
\* whose arrays concatenated are the original; other blocks pass unchanged and in
\* place; every paragraph convert_paragraph returns is within the limit.
C6_ArrayLimitSplit ==
    /\ Returned("ensure_array_len") =>
          /\ Len(res) = BlockStart(arg, Len(arg) + 1)
          /\ \A i \in DOMAIN arg :
                LET outs == SubSeq(res, BlockStart(arg, i) + 1, BlockStart(arg, i + 1))
                IN  IF IsOversized(arg[i])
                    THEN /\ \A k \in DOMAIN outs :
                               /\ outs[k].type = "paragraph"
                               /\ outs[k].object = "block"
                               /\ Len(outs[k].rich_text) <= RICHTEXT_ARRAY_LENGTH
                               /\ Len(outs[k].rich_text) > 0
                         /\ Flatten([k \in DOMAIN outs |-> outs[k].rich_text])
                               = arg[i].rich_text
                    ELSE outs = << arg[i] >>
    /\ Returned("convert_paragraph") =>
          \A k \in DOMAIN res :
              res[k].type = "paragraph" => Len(res[k].rich_text) <= RICHTEXT_ARRAY_LENGTH

\* a paragraph whose inline content is two limits and one element long, with no
\* block in it, was converted to three paragraphs
C6_Witness ==
    /\ Returned("convert_paragraph")
    /\ Len(generate_inline_obj(arg)) = 2 * RICHTEXT_ARRAY_LENGTH + 1
    /\ Len(res) = 3
    /\ \A k \in DOMAIN res : res[k].type = "paragraph"

(***************************************************************************)
(* Calls of the Color Matcher.                                             *)
(***************************************************************************)
\* components around those of the palette and around the midpoints between them
ColorValues == {0, 1, 42, 63, 64, 65, 127, 128, 129, 165, 192, 203, 254, 255}

ColorInputs == ColorValues \X ColorValues \X ColorValues

InitColor == Pending("_closest_color", ColorInputs)

ClosestColor == Return("_closest_color", closest_color(arg[1], arg[2], arg[3]))

NextColor == ClosestColor

SpecColor == InitColor /\ [][NextColor]_vars

MinDistance2(r, g, b) ==
    CHOOSE d \in {Distance2(r, g, b, notion_color[i]) : i \in DOMAIN notion_color} :
        \A i \in DOMAIN notion_color : d <= Distance2(r, g, b, notion_color[i])

\* C7: _closest_color returns, for every triple, the name of the palette entry at
\* minimum distance, the first such entry in declaration order on a tie;
\* (0,0,0) is "default" and (255,0,0) is "red".
C7_ClosestColor ==
    Returned("_closest_color") =>
        LET r == arg[1]
            g == arg[2]
            b == arg[3]
        IN  /\ \E i \in DOMAIN notion_color :
                  /\ res = notion_color[i].name
                  /\ Distance2(r, g, b, notion_color[i]) = MinDistance2(r, g, b)
                  /\ \A j \in 1..(i - 1) :
                        Distance2(r, g, b, notion_color[j]) > MinDistance2(r, g, b)
            /\ arg = <<0, 0, 0>> => res = "default"
            /\ arg = <<255, 0, 0>> => res = "red"

\* a triple at the same minimum distance from two palette entries got the first
C7_Witness ==
    /\ Returned("_closest_color")
    /\ \E i \in DOMAIN notion_color : \E j \in DOMAIN notion_color :
          /\ i < j
          /\ Distance2(arg[1], arg[2], arg[3], notion_color[i])
                = MinDistance2(arg[1], arg[2], arg[3])
          /\ Distance2(arg[1], arg[2], arg[3], notion_color[j])
                = MinDistance2(arg[1], arg[2], arg[3])
          /\ res = notion_color[i].name

(***************************************************************************)
(* List converters.                                                        *)
(***************************************************************************)
Headings == {"h1", "h2", "h3", "h4", "h5", "h6"}

\* heading.unwrap() for every heading below node: its children take its place
RECURSIVE unwrap_headings(_)
unwrap_headings(node) ==
    IF IsString(node) THEN node
    ELSE LET one(kid) ==
                 IF kid.name \in Headings
                 THEN unwrap_headings(kid).kids
                 ELSE << unwrap_headings(kid) >>
         IN  [node EXCEPT !.kids = Flatten([i \in DOMAIN node.kids |-> one(node.kids[i])])]

ListItemBlock(list_type) ==
    [NoneObj EXCEPT !.object = "block", !.type = list_type]

\* the direct children of soup with one of the names
DirectChildren(soup, names) ==
    Select(soup.kids, LAMBDA kid : kid.name \in names)

\* the media loop of _convert_one_list_item: children is set to [] before each append
RECURSIVE list_item_inline(_, _)
list_item_inline(text_obj, json_obj) ==
    IF text_obj = << >> THEN json_obj
    ELSE LET item == Head(text_obj)
         IN  IF item.object = "block" /\ item.type \in {"image", "file"}
             THEN list_item_inline(Tail(text_obj),
                      [json_obj EXCEPT !.has_children = TRUE, !.children = << item >>])
             ELSE list_item_inline(Tail(text_obj),
                      [json_obj EXCEPT !.rich_text = Append(@, item)])

ListTypeOf(name) ==
    CASE name = "ol" -> "numbered_list_item"
      [] name = "ul" -> "bulleted_list_item"
      [] OTHER -> "None"

RECURSIVE convert_list_items(_, _)
RECURSIVE convert_one_list_item(_, _)

convert_one_list_item(soup, list_type) ==
    LET json_obj == ListItemBlock(list_type)
        top_level_lists == DirectChildren(soup, {"ul", "ol"})
    IN  IF top_level_lists # << >>
        THEN [json_obj EXCEPT
                 !.has_children = TRUE,
                 !.children = Flatten([i \in DOMAIN top_level_lists |->
                                  convert_list_items(top_level_lists[i],
                                                     ListTypeOf(top_level_lists[i].name))])]
        ELSE list_item_inline(generate_inline_obj(soup), json_obj)

convert_list_items(soup, list_type) ==
    LET unwrapped == unwrap_headings(soup)
        items == DirectChildren(unwrapped, {"li"})
    IN  [i \in DOMAIN items |-> convert_one_list_item(items[i], list_type)]

convert_numbered_list_item(soup) == convert_list_items(soup, "numbered_list_item")

convert_bulleted_list_item(soup) == convert_list_items(soup, "bulleted_list_item")

(***************************************************************************)
(* Inputs of the list converters.                                          *)
(***************************************************************************)
\* Most items of the list handed to the converter.
MaxItems == 2

Li(ks) == Element("li", NoAttrs, ks)

TextA == TextNode(<<65>>)

TextB == TextNode(<<66>>)

TextC == TextNode(<<67>>)

\* items with no list in them
FlatItems ==
    { Li(<< TextA >>), Li(<< TextB >>), Li(<< Img(UrlH2, "", "") >>),
      Li(<< TextA, Img(UrlH, "", ""), Img(UrlH2, "", "") >>),
      Li(<< Styled("h1", << TextC >>) >>), Li(<< >>) }

InnerItems == { Li(<< TextB >>), Li(<< TextC, Img(UrlH2, "", "") >>) }

InnerLists ==
    {Element(n, NoAttrs, ks) : n \in {"ul", "ol"}, ks \in SeqsUpTo(InnerItems, 2) \ {<< >>}}

\* items that hold lists
NestingItems ==
    {Li(<< TextA, l >>) : l \in InnerLists}
    \cup {Li(<< l >>) : l \in InnerLists}
    \cup { Li(<< TextA, Element("ul", NoAttrs, << Li(<< TextB >>) >>),
                 Element("ol", NoAttrs, << Li(<< TextC >>) >>) >>),
           Li(<< TextA, Element("ul", NoAttrs,
                    << Li(<< TextB, Element("ol", NoAttrs, << Li(<< TextC >>) >>) >>) >>) >>),
           Li(<< Styled("div", << TextA >>),
                 Element("ol", NoAttrs, << Li(<< Styled("h2", << TextB >>) >>) >>) >>) }

ListInputs ==
    {Element(n, NoAttrs, ks) :
        n \in {"ul", "ol"}, ks \in SeqsUpTo(FlatItems \cup NestingItems, MaxItems)}

InitList ==
    \/ Pending("convert_bulleted_list_item", {l \in ListInputs : l.name = "ul"})
    \/ Pending("convert_numbered_list_item", {l \in ListInputs : l.name = "ol"})

ConvertBulletedListItem ==
    Return("convert_bulleted_list_item", convert_bulleted_list_item(arg))

ConvertNumberedListItem ==
    Return("convert_numbered_list_item", convert_numbered_list_item(arg))

NextList == ConvertBulletedListItem \/ ConvertNumberedListItem

SpecList == InitList /\ [][NextList]_vars

(***************************************************************************)
(* Claims on the list converters.                                          *)
(***************************************************************************)
ListCallReturned ==
    Returned("convert_bulleted_list_item") \/ Returned("convert_numbered_list_item")

IsList(node) == node.name \in {"ul", "ol"}

\* <li>text</li>
IsTextItem(node) ==
    node.name = "li" /\ Len(node.kids) = 1 /\ IsString(node.kids[1])

\* a list of one item that holds a text and, after it, a list of one text item
OneNestedItem(soup) ==
    /\ Len(soup.kids) = 1
    /\ soup.kids[1].name = "li"
    /\ Len(soup.kids[1].kids) = 2
    /\ IsString(soup.kids[1].kids[1])
    /\ IsList(soup.kids[1].kids[2])
    /\ Len(soup.kids[1].kids[2].kids) = 1
    /\ IsTextItem(soup.kids[1].kids[2].kids[1])

\* C8: a list whose item holds the text "A" and a directly nested list with the
\* item "B" yields one top-level list-item block, with "A" in its rich_text and
\* one child block for "B" typed by the nested list's kind.
C8_NestedList ==
    (ListCallReturned /\ OneNestedItem(arg)) =>
        /\ Len(res) = 1
        /\ res[1].type = ListTypeOf(arg.name)
        /\ Contents(res[1].rich_text) = arg.kids[1].kids[1].text
        /\ res[1].has_children
        /\ Len(res[1].children) = 1
        /\ res[1].children[1].type = ListTypeOf(arg.kids[1].kids[2].name)
        /\ Contents(res[1].children[1].rich_text) = arg.kids[1].kids[2].kids[1].kids[1].text

(***************************************************************************)
(* Table Schema Projector (utils/table.py).                                *)
(*                                                                         *)
(* tbl is the parsed table: has_tr (whether soup.find("tr") finds a row),  *)
(* headers (the (name, type) pairs of the first row's <th> cells, the type *)
(* "text" when the attribute is absent) and trs (the <td> cells of the     *)
(* rows after the first).  A cell is what the projector reads from a <td>: *)
(* its options, its image, its stripped text, its checkbox, its anchor and *)
(* its person-email attribute.                                             *)
(***************************************************************************)
NOTION_COLORS ==
    << "pink", "purple", "red", "yellow", "green", "orange", "blue", "brown", "green",
       "default", "gray" >>

Option(name, selected) == [name |-> name, selected |-> selected]

NoImg == [present |-> FALSE, upload_id |-> "", alt |-> "", src |-> ""]

Cell(options, text, email, img, checkbox, a) ==
    [options |-> options, text |-> text, person_email |-> email, img |-> img,
     checkbox |-> checkbox, a |-> a]

\* a row value; kind "" is no value
NoValue == [kind |-> "", str |-> "", names |-> << >>, checked |-> FALSE,
            file_type |-> "", file_name |-> ""]

\* [dict(name=...) for opt in td.find_all("option")]
select_options(td) == [i \in DOMAIN td.options |-> td.options[i].name]

\* the texts of the options that have the attribute "selected"
selected_options(td) ==
    Flatten([i \in DOMAIN td.options |->
                IF td.options[i].selected THEN << td.options[i].name >> ELSE << >>])

\* the type convert_header is called with: "person" becomes "email" when the
\* cell carries data-person-email
resolved_type(col_type, td) ==
    IF col_type = "person" /\ td.person_email # "" THEN "email" ELSE col_type

\* the branch of convert_to_notion_database_schema for one cell:
\* [raised, value], value.kind = "" when row_properties gets no entry
cell_value(col_type, td) ==
    LET ok(v) == [raised |-> FALSE, value |-> v]
    IN  CASE col_type = "select" ->
               IF select_options(td) # << >>
               THEN IF selected_options(td) = << >>
                    THEN [raised |-> TRUE, value |-> NoValue]
                    ELSE ok([NoValue EXCEPT !.kind = "select",
                                            !.str = selected_options(td)[1]])
               ELSE ok(NoValue)
          [] col_type = "multi_select" ->
               IF select_options(td) # << >>
               THEN ok([NoValue EXCEPT !.kind = "multi_select",
                                       !.names = selected_options(td)])
               ELSE ok(NoValue)
          [] col_type = "image" ->
               IF td.img.present /\ td.img.upload_id # ""
               THEN ok([NoValue EXCEPT !.kind = "files", !.file_type = "file_upload",
                           !.file_name = IF td.img.alt # "" THEN td.img.alt ELSE "File",
                           !.str = td.img.upload_id])
               ELSE IF td.img.present /\ td.img.src # ""
               THEN ok([NoValue EXCEPT !.kind = "files", !.file_type = "external",
                           !.file_name = "Image", !.str = td.img.src])
               ELSE ok(NoValue)
          [] col_type = "date" ->
               IF td.text # "" THEN ok([NoValue EXCEPT !.kind = "date", !.str = td.text])
               ELSE ok(NoValue)
          [] col_type = "checkbox" ->
               ok([NoValue EXCEPT !.kind = "checkbox",
                      !.checked = td.checkbox.present /\ td.checkbox.checked])
          [] col_type = "link" ->
               IF td.a.present /\ td.a.href # ""
               THEN ok([NoValue EXCEPT !.kind = "url", !.str = td.a.href])
               ELSE ok(NoValue)
          [] col_type = "person" ->
               IF td.person_email # ""
               THEN ok([NoValue EXCEPT !.kind = "email", !.str = td.person_email])
               ELSE ok([NoValue EXCEPT !.kind = "rich_text", !.str = td.text])
          [] OTHER ->
               ok([NoValue EXCEPT !.kind = "rich_text", !.str = td.text])

\* Mutant of header_data: the colours start at the second palette entry.
header_data_color_shift(col_type, value) ==
    CASE col_type \in {"select", "multi_select"} ->
           [type |-> col_type,
            options |-> [i \in DOMAIN value |->
                            [name |-> value[i],
                             color |-> NOTION_COLORS[(i % Len(NOTION_COLORS)) + 1]]]]
      [] col_type = "date" -> [type |-> "date", options |-> << >>]
      [] col_type = "checkbox" -> [type |-> "checkbox", options |-> << >>]
      [] col_type = "image" -> [type |-> "files", options |-> << >>]
      [] col_type = "link" -> [type |-> "url", options |-> << >>]
      [] col_type = "email" -> [type |-> "email", options |-> << >>]
      [] OTHER -> [type |-> "rich_text", options |-> << >>]

\* the entry convert_header builds; value is the option names, i is 1-based
header_data(col_type, value) ==
    CASE col_type \in {"select", "multi_select"} ->
           [type |-> col_type,
            options |-> [i \in DOMAIN value |->
                            [name |-> value[i],
                             color |-> NOTION_COLORS[((i - 1) % Len(NOTION_COLORS)) + 1]]]]
      [] col_type = "date" -> [type |-> "date", options |-> << >>]
      [] col_type = "checkbox" -> [type |-> "checkbox", options |-> << >>]
      [] col_type = "image" -> [type |-> "files", options |-> << >>]
      [] col_type = "link" -> [type |-> "url", options |-> << >>]
      [] col_type = "email" -> [type |-> "email", options |-> << >>]
      [] OTHER -> [type |-> "rich_text", options |-> << >>]

\* Mutant of convert_header: the entry is written on every call.
convert_header_overwrite(hdrs, col_name, col_type, value) ==
    [n \in DOMAIN hdrs \cup {col_name} |->
        IF n = col_name THEN header_data(col_type, value) ELSE hdrs[n]]

\* hdrs is self.data["table"]["headers"]; the result is that mapping after the call
convert_header(hdrs, col_name, col_type, value) ==
    IF col_name \notin DOMAIN hdrs
    THEN [n \in DOMAIN hdrs \cup {col_name} |->
             IF n = col_name THEN header_data(col_type, value) ELSE hdrs[n]]
    ELSE hdrs

\* row_properties[col_name] = value
SetProperty(props, col_name, value) ==
    [n \in DOMAIN props \cup {col_name} |-> IF n = col_name THEN value ELSE props[n]]

(***************************************************************************)
(* The tables the projector is run on.                                     *)
(***************************************************************************)
\* Most data rows of a table.
MaxRows == 2

Th(name, type) == [name |-> name, type |-> type]

DeclaredTypes ==
    {"select", "multi_select", "image", "date", "checkbox", "link", "person", "email",
     "rich_text", "text"}

HeaderSamples ==
    { << >> }
    \cup {<< Th("A", t) >> : t \in DeclaredTypes}
    \cup { << Th("A", "select"), Th("B", "multi_select") >>,
           << Th("A", "person"), Th("B", "date") >>,
           << Th("A", "email"), Th("B", "text") >>,
           << Th("A", "image"), Th("B", "checkbox") >>,
           << Th("A", "link"), Th("B", "select") >>,
           << Th("A", "select"), Th("A", "date") >>,
           << Th("A", "date"), Th("A", "select") >>,
           << Th("A", "person"), Th("A", "multi_select") >> }

\* more options than NOTION_COLORS has entries, the last one selected
OptionNames ==
    << "o1", "o2", "o3", "o4", "o5", "o6", "o7", "o8", "o9", "o10", "o11", "o12" >>

ManyOptions ==
    [i \in 1..(Len(NOTION_COLORS) + 1) |->
        Option(OptionNames[i], i = Len(NOTION_COLORS) + 1)]

CellTodoDone ==
    Cell(<< Option("Todo", FALSE), Option("Done", TRUE) >>, "x", "p@x.io",
         [present |-> TRUE, upload_id |-> "up1", alt |-> "pic", src |-> ""],
         [present |-> TRUE, checked |-> TRUE], [present |-> TRUE, href |-> "h"])

CellTwoSelected ==
    Cell(<< Option("Todo", TRUE), Option("Doing", TRUE), Option("Done", FALSE) >>, "", "",
         [present |-> TRUE, upload_id |-> "", alt |-> "", src |-> "h2"],
         [present |-> TRUE, checked |-> FALSE], [present |-> TRUE, href |-> ""])

CellManyOptions ==
    Cell(ManyOptions, "y", "", NoImg,
         [present |-> FALSE, checked |-> FALSE], [present |-> FALSE, href |-> ""])

CellNoneSelected ==
    Cell(<< Option("Todo", FALSE), Option("Done", FALSE) >>, "z", "q@x.io",
         [present |-> TRUE, upload_id |-> "", alt |-> "", src |-> ""],
         [present |-> FALSE, checked |-> FALSE], [present |-> FALSE, href |-> ""])

CellNoOptions ==
    Cell(<< >>, "w", "", NoImg,
         [present |-> FALSE, checked |-> FALSE], [present |-> FALSE, href |-> ""])

RowSamples ==
    { << >>, << CellTodoDone >>, << CellTwoSelected >>, << CellManyOptions >>,
      << CellNoneSelected >>, << CellNoOptions, CellTodoDone >>,
      << CellTodoDone, CellTwoSelected >>, << CellTwoSelected, CellTodoDone >>,
      << CellManyOptions, CellNoneSelected >> }

\* a call of convert_table: the parsed table, self.is_databases_conversion and
\* the attribute data-coda-grid-configuration-set ("" when absent)
TableCall(has_tr, h, t, flag, grid) ==
    [has_tr |-> has_tr, headers |-> h, trs |-> t,
     is_databases_conversion |-> flag, grid_configuration_set |-> grid]

\* the attribute is absent, the database marker, or another value
GridValues == {"", "SimpleTable", "Other"}

\* the converter in database mode on every table; without the mode, with each
\* value of the attribute, on the tables of at most one data row
Tables ==
    {TableCall(TRUE, h, t, TRUE, "") :
        h \in HeaderSamples, t \in SeqsUpTo(RowSamples, MaxRows)}
    \cup {TableCall(TRUE, h, t, FALSE, g) :
        h \in HeaderSamples, t \in SeqsUpTo(RowSamples, 1), g \in GridValues}
    \cup {TableCall(FALSE, << >>, << >>, f, g) : f \in BOOLEAN, g \in GridValues}

(***************************************************************************)
(* convert_table: the choice of the path, and the generic path.            *)
(***************************************************************************)
\* the result of convert_table: None, the generic table object, or
\* notion_converter.data
NoTable ==
    [type |-> "None", has_column_header |-> FALSE, table_width |-> 0, children |-> << >>,
     headers |-> << >>, rows |-> << >>]

\* the condition of line 560
database_path(t) ==
    t.is_databases_conversion \/ t.grid_configuration_set = "SimpleTable"

\* the generic path on a table with rows: tr_tags is the header row (<th> cells
\* only) followed by the data rows (<td> cells only); a row of the result is
\* [is_th_tags, cells], cells the number of its cells
generic_table(t) ==
    LET tds(i) == IF i = 1 THEN 0 ELSE Len(t.trs[i - 1])
        ths(i) == IF i = 1 THEN Len(t.headers) ELSE 0
        n == 1 + Len(t.trs)
        td_tags(i) == IF tds(i) = 0 THEN ths(i) ELSE tds(i)
        width(i) == Max(tds(1), td_tags(i))
        widest == CHOOSE i \in 1..n : \A j \in 1..n : width(j) <= width(i)
    IN  [NoTable EXCEPT
            !.type = "table",
            !.has_column_header = \E i \in 1..n : tds(i) = 0,
            !.table_width = width(widest),
            !.children = [i \in 1..n |-> [is_th_tags |-> tds(i) = 0, cells |-> td_tags(i)]]]

(***************************************************************************)
(* convert_to_notion_database_schema, one step per cell.                   *)
(***************************************************************************)
InitTable ==
    /\ op = "convert_table"
    /\ arg = << >>
    /\ res = << >>
    /\ done = FALSE
    /\ tbl \in Tables
    /\ pc = "call"
    /\ row = 0
    /\ col = 0
    /\ headers = << >>
    /\ row_properties = << >>
    /\ rows = << >>
    /\ data_rows = << >>

\* convert_table up to the call of the projector; on the generic path to its
\* return: None when there is no <tr>, the table object otherwise
ConvertTable ==
    /\ pc = "call"
    /\ IF database_path(tbl)
       THEN /\ pc' = "start"
            /\ UNCHANGED callVars
       ELSE /\ pc' = "generic"
            /\ res' = IF tbl.has_tr THEN generic_table(tbl) ELSE NoTable
            /\ done' = TRUE
            /\ UNCHANGED <<op, arg>>
    /\ UNCHANGED <<tbl, row, col, headers, row_properties, rows, data_rows>>

\* return notion_converter.data
ReturnData ==
    /\ pc = "done"
    /\ ~done
    /\ res' = [NoTable EXCEPT !.type = "database", !.headers = headers, !.rows = data_rows]
    /\ done' = TRUE
    /\ UNCHANGED <<op, arg>>
    /\ UNCHANGED tableVars

\* headers = self.extract_headers(): None has no find_all when there is no <tr>
ExtractHeaders ==
    /\ pc = "start"
    /\ IF tbl.has_tr
       THEN /\ pc' = "rows"
            /\ row' = 1
            /\ col' = 1
       ELSE /\ pc' = "raised"
            /\ UNCHANGED <<row, col>>
    /\ UNCHANGED <<tbl, headers, row_properties, rows, data_rows>>
    /\ UNCHANGED callVars

\* one iteration of the loop over the columns, convert_header included
ProcessCell ==
    /\ pc = "rows"
    /\ row <= Len(tbl.trs)
    /\ col <= Len(tbl.headers)
    /\ LET tds == tbl.trs[row]
           col_name == tbl.headers[col].name
           col_type == tbl.headers[col].type
       IN  IF Len(tds) < col
           THEN /\ col' = col + 1
                /\ UNCHANGED <<pc, headers, row_properties>>
           ELSE LET td == tds[col]
                    got == cell_value(col_type, td)
                IN  IF got.raised
                    THEN /\ pc' = "raised"
                         /\ UNCHANGED <<col, headers, row_properties>>
                    ELSE /\ col' = col + 1
                         /\ row_properties' =
                               IF got.value.kind = "" THEN row_properties
                               ELSE SetProperty(row_properties, col_name, got.value)
                         /\ headers' = convert_header(headers, col_name,
                                           resolved_type(col_type, td), select_options(td))
                         /\ UNCHANGED pc
    /\ UNCHANGED <<tbl, row, rows, data_rows>>
    /\ UNCHANGED callVars

\* rows.append(row_properties)
EndRow ==
    /\ pc = "rows"
    /\ row <= Len(tbl.trs)
    /\ col > Len(tbl.headers)
    /\ rows' = Append(rows, row_properties)
    /\ row_properties' = << >>
    /\ row' = row + 1
    /\ col' = 1
    /\ UNCHANGED <<tbl, pc, headers, data_rows>>
    /\ UNCHANGED callVars

\* self.data['table']["rows"] = rows; return rows
Finish ==
    /\ pc = "rows"
    /\ row > Len(tbl.trs)
    /\ data_rows' = rows
    /\ pc' = "done"
    /\ UNCHANGED <<tbl, row, col, headers, row_properties, rows>>
    /\ UNCHANGED callVars

NextTable == ConvertTable \/ ExtractHeaders \/ ProcessCell \/ EndRow \/ Finish \/ ReturnData

SpecTable == InitTable /\ [][NextTable]_vars

(***************************************************************************)
(* Claims on the Table Schema Projector.                                   *)
(***************************************************************************)
\* the cell of row r and column c has been processed without an exception
Processed(r, c) ==
    /\ pc \in {"rows", "done", "raised"}
    /\ r \in DOMAIN tbl.trs
    /\ c \in DOMAIN tbl.headers
    /\ Len(tbl.trs[r]) >= c
    /\ r < row \/ (r = row /\ c < col)

\* the property mapping of row r, finished or being filled
PropsOf(r) == IF r <= Len(rows) THEN rows[r] ELSE row_properties

\* no other column carries the name of column c
UniqueName(c) ==
    \A c2 \in DOMAIN tbl.headers : c2 # c => tbl.headers[c2].name # tbl.headers[c].name

\* no row before r supplies a cell for column c
FirstCell(r, c) == \A r2 \in 1..(r - 1) : Len(tbl.trs[r2]) < c

\* the names of the selected options, in option order
SelectedNames(td) ==
    LET idx == {i \in DOMAIN td.options : td.options[i].selected}
        \* the k-th smallest index of idx
        nth(k) == CHOOSE i \in idx : Cardinality({j \in idx : j < i}) = k - 1
    IN  [k \in 1..Cardinality(idx) |-> td.options[nth(k)].name]

NameSeen(n) ==
    \E r \in DOMAIN tbl.trs : \E c \in DOMAIN tbl.headers :
        Processed(r, c) /\ tbl.headers[c].name = n

\* C10: the header entry of a column name is written when a cell for that name
\* is processed for the first time, and no later step changes an entry.
C10_HeaderFirstWriteWins ==
    [][ /\ \A n \in DOMAIN headers :
              n \in DOMAIN headers' /\ headers'[n] = headers[n]
        /\ \A n \in DOMAIN headers' \ DOMAIN headers :
              /\ ~NameSeen(n)
              /\ pc = "rows"
              /\ tbl.headers[col].name = n
              /\ headers'[n] =
                    header_data(resolved_type(tbl.headers[col].type, tbl.trs[row][col]),
                                select_options(tbl.trs[row][col]))
        /\ \A c \in DOMAIN tbl.headers :
              NameSeen(tbl.headers[c].name)' => tbl.headers[c].name \in DOMAIN headers'
      ]_vars

\* the entry a cell of column c would write
EntryOf(r, c) ==
    header_data(resolved_type(tbl.headers[c].type, tbl.trs[r][c]),
                select_options(tbl.trs[r][c]))

\* two cells of one column name that would write different entries have been
\* processed, and the entry is the one of the first
C10_Witness ==
    \E r1 \in DOMAIN tbl.trs : \E r2 \in DOMAIN tbl.trs :
    \E c1 \in DOMAIN tbl.headers : \E c2 \in DOMAIN tbl.headers :
        /\ r1 < r2 \/ (r1 = r2 /\ c1 < c2)
        /\ Processed(r1, c1) /\ Processed(r2, c2)
        /\ tbl.headers[c1].name = tbl.headers[c2].name
        /\ \A r \in 1..(r1 - 1) : \A c \in DOMAIN tbl.headers :
              tbl.headers[c].name = tbl.headers[c1].name => Len(tbl.trs[r]) < c
        /\ \A c \in 1..(c1 - 1) : tbl.headers[c].name # tbl.headers[c1].name
        /\ EntryOf(r1, c1) # EntryOf(r2, c2)
        /\ headers[tbl.headers[c1].name] = EntryOf(r1, c1)

(***************************************************************************)
(* Claims on convert_table.                                                *)
(***************************************************************************)
\* C11: convert_table on a table with no rows raises no error and yields no
\* block, on the generic path and on the database path alike.
C11_NoRowsNoOutput ==
    (op = "convert_table" /\ ~tbl.has_tr) =>
        /\ pc # "raised"
        /\ done => res.type = "None"

\* C13: on a table with a header row the projector never raises, whatever the
\* options of a select or multi_select cell and whichever of them are selected,
\* and whatever the number of cells of a row; it completes with one property
\* mapping per data row.
C13_ProjectorNeverRaises ==
    (op = "convert_table" /\ tbl.has_tr /\ database_path(tbl)) =>
        /\ pc # "raised"
        /\ pc = "done" => Len(data_rows) = Len(tbl.trs)

(***************************************************************************)
(* Heading converter.  The result of a call is [raised, value]: raised     *)
(* when an exception leaves the call, value the returned object otherwise. *)
(***************************************************************************)
\* heading_map.get(soup.name, "heading_3")
heading_level_of(name) ==
    CASE name = "h1" -> "heading_1"
      [] name = "h2" -> "heading_2"
      [] OTHER -> "heading_3"

\* the items of rich_text that are images of type file_upload
is_file_block(item) == item.type = "image" /\ item.file_type = "file_upload"

\* with data-toggle the key heading_level is popped from json_obj (line 473) and
\* read again at line 482: KeyError
convert_heading(soup) ==
    LET heading_level == heading_level_of(soup.name)
        text_obj == generate_inline_obj(soup)
        file_blocks == Select(text_obj, is_file_block)
        cleaned_elements == Select(text_obj, LAMBDA item : ~is_file_block(item))
    IN  IF text_obj = << >> THEN [raised |-> FALSE, value |-> NoneObj]
        ELSE IF soup.attrs.toggle # ""
        THEN [raised |-> TRUE, value |-> NoneObj]
        ELSE [raised |-> FALSE,
              value |-> [NoneObj EXCEPT !.object = "block", !.type = heading_level,
                                        !.rich_text = cleaned_elements,
                                        !.has_children = file_blocks # << >>,
                                        !.children = file_blocks]]

\* the children of the headings: texts, a line break, a link, images and files
HeadingKids ==
    { TextNode(<<97>>), TextNode(<<32>>), Br,
      Anchor(UrlH, "", << TextNode(<<97, 98>>) >>),
      Img(UrlH2, "", ""), Img(<<>>, "up1", ""), Img(<<>>, "up2", "application/pdf") }

HeadingNames == {"h1", "h2", "h3", "h5"}

HeadingInputs ==
    {Element(n, [NoAttrs EXCEPT !.toggle = t], ks) :
        n \in HeadingNames, t \in {"", "true"}, ks \in SeqsUpTo(HeadingKids, MaxKids)}

InitHeading == Pending("convert_heading", HeadingInputs)

ConvertHeading == Return("convert_heading", convert_heading(arg))

NextHeading == ConvertHeading

SpecHeading == InitHeading /\ [][NextHeading]_vars

\* the rich_text of the heading block the element yields without the marker
HeadingRichText(soup) ==
    convert_heading([soup EXCEPT !.attrs.toggle = ""]).value.rich_text

\* C12: convert_heading on a heading with content and the toggle marker returns,
\* without raising, a block of type "toggle" that holds the rich text the heading
\* would have had, and a children array.
C12_ToggleHeading ==
    (Returned("convert_heading") /\ arg.attrs.toggle # ""
                                 /\ generate_inline_obj(arg) # << >>) =>
        /\ ~res.raised
        /\ res.value.type = "toggle"
        /\ res.value.rich_text = HeadingRichText(arg)
        /\ res.value.has_children

(***************************************************************************)
(* Claims on links to pages and on annotations.                            *)
(***************************************************************************)
\* the text_params of a leaf unit, as the loop of generate_inline_obj builds them
ParamsOf(leaf) == parse_styles(leaf.parents, NewParams(leaf.text))

\* the leaf unit of an <img>
IsImgLeaf(leaf) == leaf.parents # << >> /\ Last(leaf.parents).name = "img"

\* a text leaf under an anchor that carries a destination-container id
IsPageLeaf(leaf) == ~IsImgLeaf(leaf) /\ ParamsOf(leaf).database_id # ""

\* C14: every text leaf whose anchor ancestor carries a destination-container id
\* is emitted as a link_to_page object referencing that id, whatever the href of
\* the anchor: the page links of the result are, in order, those of the leaves.
C14_LinkToPage ==
    Returned("generate_inline_obj") =>
        LET leaves == Select(LeavesOf(arg), IsPageLeaf)
            links == Select(res, LAMBDA o : o.type = "link_to_page")
        IN  /\ Len(links) = Len(leaves)
            /\ \A i \in DOMAIN links :
                  /\ links[i].object = "block"
                  /\ links[i].database_id = ParamsOf(leaves[i]).database_id

(***************************************************************************)
(* Claims on the media of list items.                                      *)
(***************************************************************************)
\* an image or file object
IsMedia(item) == item.object = "block" /\ item.type \in {"image", "file"}

\* the <li> elements the converter works on
ItemsOf(soup) == DirectChildren(unwrap_headings(soup), {"li"})

\* C15: for a list item with no directly nested list, the image and file
\* objects of its inline content are its children, all of them and in order, and
\* the other objects are its rich_text, in order.
C15_ListItemMedia ==
    ListCallReturned =>
        /\ Len(res) = Len(ItemsOf(arg))
        /\ \A i \in DOMAIN ItemsOf(arg) :
              LET item == ItemsOf(arg)[i]
                  objs == generate_inline_obj(item)
              IN  DirectChildren(item, {"ul", "ol"}) = << >> =>
                      /\ res[i].children = Select(objs, IsMedia)
                      /\ res[i].rich_text = Select(objs, LAMBDA o : ~IsMedia(o))

(***************************************************************************)
(* Claims on the types of the columns.                                     *)
(***************************************************************************)
\* C16: whenever a cell of a person column (of a name no other column has)
\* carries a person-email attribute, the value of its row is an email value and
\* the header entry of the column has type "email", whatever the rows before it.
C16_PersonEmail ==
    op = "convert_table" =>
        \A r \in DOMAIN tbl.trs : \A c \in DOMAIN tbl.headers :
            (/\ Processed(r, c)
             /\ UniqueName(c)
             /\ tbl.headers[c].type = "person"
             /\ tbl.trs[r][c].person_email # "") =>
                LET name == tbl.headers[c].name
                IN  /\ name \in DOMAIN PropsOf(r)
                    /\ PropsOf(r)[name] =
                          [NoValue EXCEPT !.kind = "email",
                                          !.str = tbl.trs[r][c].person_email]
                    /\ name \in DOMAIN headers
                    /\ headers[name].type = "email"

\* the property mappings built so far: the finished rows and the one being filled
AllProps == Append(rows, row_properties)

\* C19: every column name that is a key of a row's property mapping has a header
\* entry, and the kind of the row value is the type of that entry.
C19_ValueKindIsHeaderType ==
    op = "convert_table" =>
        \A r \in DOMAIN AllProps : \A n \in DOMAIN AllProps[r] :
            /\ n \in DOMAIN headers
            /\ AllProps[r][n].kind = headers[n].type

\* the flags the rules give a leaf: each is set when an ancestor satisfies its rule
FlagsOf(leaf) ==
    LET some(rule(_, _)) ==
            \E i \in DOMAIN leaf.parents :
                rule(leaf.parents[i].name, get_tag_style(leaf.parents[i]))
    IN  [bold |-> some(is_bold), italic |-> some(is_italic),
         underline |-> some(is_underline), strikethrough |-> some(is_strikethrough),
         code |-> some(is_code)]

\* the boolean annotations of an object
Flags(o) ==
    [bold |-> o.annotations.bold, italic |-> o.annotations.italic,
     underline |-> o.annotations.underline,
     strikethrough |-> o.annotations.strikethrough, code |-> o.annotations.code]

\* a text leaf: not the unit of a line break or of an image
IsTextLeaf(leaf) == ~IsImgLeaf(leaf) /\ leaf.text # BR_TEXT

\* C17 as stated: the object emitted for a text leaf, whatever its kind, carries
\* each boolean annotation exactly when an ancestor of the leaf satisfies its rule.
C17_FlagsOnEveryObject ==
    (Returned("generate_inline_obj") /\ Len(LeavesOf(arg)) = 1
                                     /\ IsTextLeaf(LeavesOf(arg)[1])) =>
        /\ res # << >>
        /\ \A k \in DOMAIN res : Flags(res[k]) = FlagsOf(LeavesOf(arg)[1])

\* a text leaf that is emitted as plain text
IsPlainTextLeaf(leaf) == IsTextLeaf(leaf) /\ IsPlainLeaf(leaf)

IsPlainTextObj(o) == o.type = "text" /\ o.href = << >>

\* C17 amended: the plain text objects of the result are, in order, those of the
\* plain text leaves, one per chunk, and each carries a boolean annotation exactly
\* when an ancestor of its leaf satisfies the rule, so a flag set by one ancestor is
\* not cleared by a later one; links carry no annotations.
C17_FlagsAccumulate ==
    Returned("generate_inline_obj") =>
        LET leaves == Select(LeavesOf(arg), IsPlainTextLeaf)
            expected == Flatten([i \in DOMAIN leaves |->
                            [k \in 1..CeilDiv(Len(leaves[i].text), TEXT_MAX_LENGTH) |->
                                FlagsOf(leaves[i])]])
            texts == Select(res, IsPlainTextObj)
        IN  /\ [i \in DOMAIN texts |-> Flags(texts[i])] = expected
            /\ \A i \in DOMAIN res :
                  IsLink(res[i]) => res[i].annotations = NoAnnotations

\* a text in an element that only underlines inside one that only sets bold, or
\* the other way round, was emitted as one object with both flags
C17_Witness ==
    /\ Returned("generate_inline_obj")
    /\ Len(LeavesOf(arg)) = 1
    /\ LET parents == LeavesOf(arg)[1].parents
       IN  /\ Len(parents) = 3
           /\ {parents[2].name, parents[3].name} = {"b", "u"}
    /\ Len(res) = 1
    /\ res[1].annotations.bold
    /\ res[1].annotations.underline

(***************************************************************************)
(* Claims on the split of a paragraph around its block objects.            *)
(***************************************************************************)
IsBlockObj(o) == o.object = "block"

IsParagraph(o) == o.type = "paragraph"

\* rich_text holds a block object and an object that is none
Mixes(rich_text) ==
    /\ \E i \in DOMAIN rich_text : IsBlockObj(rich_text[i])
    /\ \E i \in DOMAIN rich_text : ~IsBlockObj(rich_text[i])

\* C18: split_image_src on a paragraph whose rich_text mixes text objects and
\* block objects returns paragraphs and standalone block objects: no paragraph
\* holds a block object or has an empty rich_text, no two paragraphs are adjacent,
\* and the rich_text of the paragraphs and the standalone blocks, in order, are
\* the original rich_text.
C18_SplitAroundBlocks ==
    (Returned("split_image_src") /\ Mixes(arg.rich_text)) =>
        /\ \A k \in DOMAIN res :
              IF IsParagraph(res[k])
              THEN /\ res[k].rich_text # << >>
                   /\ \A i \in DOMAIN res[k].rich_text : ~IsBlockObj(res[k].rich_text[i])
              ELSE /\ IsBlockObj(res[k])
                   /\ \E i \in DOMAIN arg.rich_text : arg.rich_text[i] = res[k]
        /\ \A k \in 1..(Len(res) - 1) : ~(IsParagraph(res[k]) /\ IsParagraph(res[k + 1]))
        /\ Flatten([k \in DOMAIN res |->
               IF IsParagraph(res[k]) THEN res[k].rich_text ELSE << res[k] >>])
              = arg.rich_text

\* a paragraph of a text, a block and a text was split into three blocks
C18_Witness ==
    /\ Returned("split_image_src")
    /\ Len(arg.rich_text) = 3
    /\ ~IsBlockObj(arg.rich_text[1])
    /\ IsBlockObj(arg.rich_text[2])
    /\ ~IsBlockObj(arg.rich_text[3])
    /\ Len(res) = 3
    /\ IsParagraph(res[1]) /\ IsParagraph(res[3])

====
